---- MODULE Spec2Model ----
(***************************************************************************)
(* A model of photutils' Background class (src/photutils/background.py):   *)
(* padding and tiling of the input grid, sigma clipping of the tile stack, *)
(* the per-tile estimators, mesh fallback and filtering, resizing to the   *)
(* full-resolution maps, and the six lazily cached properties.             *)
(*                                                                         *)
(* Numbers.  A float is modelled by an exact rational <<n, d>> with d > 0  *)
(* in lowest terms; NaN is <<0, 0>>.  A square root (np.ma.std) is rounded *)
(* down to a multiple of 1/SqrtScale, as the float result is rounded to    *)
(* the float grid.  Arrays are 0-based, as in the source.                  *)
(***************************************************************************)
EXTENDS Integers, Sequences, FiniteSets, TLC

VARIABLES
    data,             \* the data argument: [ny, nx, v], v[<<r, c>>] a number
    mask,             \* self.mask: NoMask (None) or [<<r, c>> |-> BOOLEAN]
    box_shape,        \* self.box_shape, <<ny_box, nx_box>>
    filter_shape,     \* self.filter_shape, <<yfs, xfs>>
    filter_threshold, \* self.filter_threshold: None or a number
    method,           \* self.method
    sigclip_sigma,    \* self.sigclip_sigma
    sigclip_iters,    \* self.sigclip_iters: None or an iteration count
    padded,           \* self.padded
    data_sigclip,     \* self.data_sigclip: the clipped tile stack
    cached,           \* the lazy properties stored in the instance's __dict__
    val,              \* their stored values
    ncomputed,        \* how often each property's body ran to completion
    last              \* the last property access and how it ended

vars == <<data, mask, box_shape, filter_shape, filter_threshold, method,
          sigclip_sigma, sigclip_iters, padded, data_sigclip, cached, val,
          ncomputed, last>>

-----------------------------------------------------------------------------
(* Bounds of the model. *)

MaxVal == 3
MaxTile == 4
MaxSigma == 2
MaxIters == 2
SqrtScale == 10

(* Python's None for the optional numeric arguments (the defaults of       *)
(* filter_threshold and sigclip_iters); the numbers they take are >= 0.    *)
None == -1

(* mask=None *)
NoMask == <<>>

-----------------------------------------------------------------------------
(* Rational arithmetic with NaN. *)

NaN == <<0, 0>>

IsNaN(a) == a[2] = 0

Abs(n) == IF n < 0 THEN -n ELSE n

RECURSIVE GCD(_, _)
GCD(a, b) == IF b = 0 THEN a ELSE GCD(b, a % b)

Norm(n, d) ==
    IF d = 0 THEN NaN
    ELSE LET g == GCD(Abs(n), Abs(d))
             s == IF d < 0 THEN -1 ELSE 1
         IN  <<s * (n \div g), s * (d \div g)>>

Rat(n) == <<n, 1>>

RAdd(a, b) == IF IsNaN(a) \/ IsNaN(b) THEN NaN
              ELSE Norm(a[1] * b[2] + b[1] * a[2], a[2] * b[2])

RSub(a, b) == IF IsNaN(a) \/ IsNaN(b) THEN NaN
              ELSE Norm(a[1] * b[2] - b[1] * a[2], a[2] * b[2])

RMul(a, b) == IF IsNaN(a) \/ IsNaN(b) THEN NaN
              ELSE Norm(a[1] * b[1], a[2] * b[2])

(* x / 0 is nan or inf in numpy; the callers test the divisor first. *)
RDiv(a, b) == IF IsNaN(a) \/ IsNaN(b) \/ b[1] = 0 THEN NaN
              ELSE Norm(a[1] * b[2], a[2] * b[1])

(* Comparisons with NaN are False, as in IEEE arithmetic. *)
RLt(a, b) == ~IsNaN(a) /\ ~IsNaN(b) /\ a[1] * b[2] < b[1] * a[2]

RLe(a, b) == ~IsNaN(a) /\ ~IsNaN(b) /\ a[1] * b[2] <= b[1] * a[2]

RGt(a, b) == RLt(b, a)

(* floor(sqrt(n)) *)
ISqrt(n) == CHOOSE r \in 0..n : r * r <= n /\ (r + 1) * (r + 1) > n

(* np.sqrt of a non-negative rational, rounded down to 1/SqrtScale. *)
RSqrt(a) ==
    IF IsNaN(a) THEN NaN
    ELSE Norm(ISqrt((a[1] * SqrtScale * SqrtScale) \div a[2]), SqrtScale)

-----------------------------------------------------------------------------
(* Reductions over the values v[i], i \in I (I finite). *)

RECURSIVE SumOver(_, _)
SumOver(v, I) ==
    IF I = {} THEN Rat(0)
    ELSE LET i == CHOOSE j \in I : TRUE
         IN  RAdd(v[i], SumOver(v, I \ {i}))

(* The k-th smallest (k from 0) of the values v[i], i \in I, none NaN. *)
KthSmallest(v, I, k) ==
    LET i == CHOOSE j \in I :
                 /\ Cardinality({l \in I : RLt(v[l], v[j])}) <= k
                 /\ k < Cardinality({l \in I : RLe(v[l], v[j])})
    IN  v[i]

(* np.median of the values v[i], i \in I, I not empty: the middle value,   *)
(* or the mean of the two middle values; NaN when a value is NaN.          *)
MedianOver(v, I) ==
    LET n == Cardinality(I)
    IN  IF \E i \in I : IsNaN(v[i]) THEN NaN
        ELSE IF n % 2 = 1 THEN KthSmallest(v, I, n \div 2)
        ELSE RDiv(RAdd(KthSmallest(v, I, n \div 2 - 1),
                       KthSmallest(v, I, n \div 2)), Rat(2))

MeanOver(v, I) == RDiv(SumOver(v, I), Rat(Cardinality(I)))

(* np.var (ddof = 0): the mean of the squared deviations from the mean. *)
VarOver(v, I) ==
    LET m == MeanOver(v, I)
        sq == [i \in I |-> RMul(RSub(v[i], m), RSub(v[i], m))]
    IN  MeanOver(sq, I)

-----------------------------------------------------------------------------
(* n-dimensional arrays: [shape |-> <<s1, ..., sn>>, c |-> [index |-> cell]]*)
(* in C (row-major) order.  A cell of a plain array is a number or a       *)
(* boolean; a cell of a masked array is [v |-> number, m |-> BOOLEAN].     *)

Idx(shape) ==
    CASE Len(shape) = 2 -> {<<a, b>> : a \in 0..shape[1] - 1, b \in 0..shape[2] - 1}
      [] Len(shape) = 3 -> {<<a, b, c>> : a \in 0..shape[1] - 1,
                                          b \in 0..shape[2] - 1,
                                          c \in 0..shape[3] - 1}
      [] Len(shape) = 4 -> {<<a, b, c, d>> : a \in 0..shape[1] - 1,
                                             b \in 0..shape[2] - 1,
                                             c \in 0..shape[3] - 1,
                                             d \in 0..shape[4] - 1}

(* The position of index p in the flattened array. *)
RECURSIVE RavelFrom(_, _, _, _)
RavelFrom(p, shape, i, acc) ==
    IF i > Len(shape) THEN acc
    ELSE RavelFrom(p, shape, i + 1, acc * shape[i] + p[i])

Ravel(p, shape) == RavelFrom(p, shape, 1, 0)

(* The index, in an array of that shape, of flat position f. *)
RECURSIVE UnravelFrom(_, _, _)
UnravelFrom(f, shape, i) ==
    IF i = 0 THEN <<>>
    ELSE UnravelFrom(f \div shape[i], shape, i - 1) \o <<f % shape[i]>>

Unravel(f, shape) == UnravelFrom(f, shape, Len(shape))

(* ndarray.reshape: the same cells in the same flat order. *)
Reshape(arr, shape) ==
    [shape |-> shape,
     c |-> [p \in Idx(shape) |-> arr.c[Unravel(Ravel(p, shape), arr.shape)]]]

(* np.ma.swapaxes(arr, 1, 2) of a 4-dimensional array. *)
Swapaxes12(arr) ==
    LET s == arr.shape
        t == <<s[1], s[3], s[2], s[4]>>
    IN  [shape |-> t,
         c |-> [p \in Idx(t) |-> arr.c[<<p[1], p[3], p[2], p[4]>>]]]

(* np.pad(arr, ((0, ypad), (0, xpad)), mode='constant',                    *)
(*        constant_values=[fill]) *)
np_pad(arr, ypad, xpad, fill) ==
    LET t == <<arr.shape[1] + ypad, arr.shape[2] + xpad>>
    IN  [shape |-> t,
         c |-> [p \in Idx(t) |->
                   IF p[1] < arr.shape[1] /\ p[2] < arr.shape[2]
                   THEN arr.c[p] ELSE fill]]

(* np.ma.masked_array(d, mask=m): m an array of booleans, or NoMask. *)
masked_array(d, m) ==
    [shape |-> d.shape,
     c |-> [p \in Idx(d.shape) |->
               [v |-> d.c[p], m |-> IF m = NoMask THEN FALSE ELSE m.c[p]]]]

-----------------------------------------------------------------------------
(* Background.__init__, _pad_data *)

yextra(d, box) == d.shape[1] % box[1]

xextra(d, box) == d.shape[2] % box[2]

is_padded(d, box) == yextra(d, box) > 0 \/ xextra(d, box) > 0

_pad_data(d, m, box) ==
    LET ypad == IF yextra(d, box) > 0 THEN box[1] - yextra(d, box) ELSE 0
        xpad == IF xextra(d, box) > 0 THEN box[2] - xextra(d, box) ELSE 0
        padded_data == np_pad(d, ypad, xpad, NaN)
        isnan == [shape |-> padded_data.shape,
                  c |-> [p \in Idx(padded_data.shape) |->
                            IsNaN(padded_data.c[p])]]
        padded_mask ==
            IF m # NoMask
            THEN LET mask_pad == np_pad(m, ypad, xpad, FALSE)
                 IN  [shape |-> isnan.shape,
                      c |-> [p \in Idx(isnan.shape) |->
                                isnan.c[p] \/ mask_pad.c[p]]]
            ELSE isnan
    IN  masked_array(padded_data, padded_mask)

(* The masked array __init__ hands to _sigclip_data. *)
data_ma_of(d, m, box) ==
    IF is_padded(d, box) THEN _pad_data(d, m, box) ELSE masked_array(d, m)

-----------------------------------------------------------------------------
(* astropy.stats.sigma_clip(data_rebin, sig, axis=2, iters,                *)
(*                          cenfunc=np.ma.median, varfunc=np.ma.var)       *)

(* The samples of tile <<i, j>> that are not excluded. *)
Unmasked(t, i, j) == {k \in 0..t.shape[3] - 1 : ~t.c[<<i, j, k>>].m}

TileVals(t, i, j) == [k \in 0..t.shape[3] - 1 |-> t.c[<<i, j, k>>].v]

(* ndarray.count(): the samples of the whole stack that are not excluded. *)
count(t) == Cardinality({p \in Idx(t.shape) : ~t.c[p].m})

(* One iteration: exclude the samples with                                 *)
(* (x - median)^2 > variance * sig^2, per tile.                            *)
ClipOnce(t, sig) ==
    LET cen == [q \in Idx(<<t.shape[1], t.shape[2]>>) |->
                   IF Unmasked(t, q[1], q[2]) = {} THEN NaN
                   ELSE MedianOver(TileVals(t, q[1], q[2]),
                                   Unmasked(t, q[1], q[2]))]
        var == [q \in Idx(<<t.shape[1], t.shape[2]>>) |->
                   IF Unmasked(t, q[1], q[2]) = {} THEN NaN
                   ELSE VarOver(TileVals(t, q[1], q[2]),
                                Unmasked(t, q[1], q[2]))]
        rej(p) == LET q == <<p[1], p[2]>>
                      do == RSub(t.c[p].v, cen[q])
                  IN  RGt(RMul(do, do), RMul(var[q], Rat(sig * sig)))
    IN  [shape |-> t.shape,
         c |-> [p \in Idx(t.shape) |->
                   [v |-> t.c[p].v, m |-> t.c[p].m \/ rej(p)]]]

(* iters=None: iterate until an iteration rejects nothing. *)
RECURSIVE ClipUntilConverged(_, _, _)
ClipUntilConverged(t, sig, lastrej) ==
    IF count(t) = lastrej THEN t
    ELSE ClipUntilConverged(ClipOnce(t, sig), sig, count(t))

(* iters=n: n iterations. *)
RECURSIVE ClipIters(_, _, _)
ClipIters(t, sig, n) ==
    IF n <= 0 THEN t ELSE ClipIters(ClipOnce(t, sig), sig, n - 1)

sigma_clip(t, sig, iters) ==
    IF iters = None THEN ClipUntilConverged(t, sig, count(t) + 1)
    ELSE ClipIters(t, sig, iters)

-----------------------------------------------------------------------------
(* Background._sigclip_data *)

(* data_rebin_of without the swap of the box-row and tile-column axes. *)
data_rebin_noswap(data_ma, box) ==
    Reshape(data_ma, <<data_ma.shape[1] \div box[1],
                       data_ma.shape[2] \div box[2], box[1] * box[2]>>)

(* data_rebin: the padded grid as a stack of tiles. *)
data_rebin_of(data_ma, box) ==
    LET ny == data_ma.shape[1]
        nx == data_ma.shape[2]
        ny_box == box[1]
        nx_box == box[2]
        y_nbins == ny \div ny_box
        x_nbins == nx \div nx_box
    IN  Reshape(Swapaxes12(Reshape(data_ma,
                                   <<y_nbins, ny_box, x_nbins, nx_box>>)),
                <<y_nbins, x_nbins, ny_box * nx_box>>)

(* _sigclip_data with a single iteration where iters is None. *)
_sigclip_data_once(data_ma, box, sig, iters) ==
    sigma_clip(data_rebin_of(data_ma, box), sig,
               IF iters = None THEN 1 ELSE iters)

_sigclip_data(data_ma, box, sig, iters) ==
    sigma_clip(data_rebin_of(data_ma, box), sig, iters)

-----------------------------------------------------------------------------
(* Statistics of the clipped tiles along axis 2: masked arrays of shape    *)
(* (y_nbins, x_nbins).  A tile with no surviving sample gives a masked     *)
(* cell.                                                                   *)

masked == [v |-> Rat(0), m |-> TRUE]

MeshShape(t) == <<t.shape[1], t.shape[2]>>

ma_mean(t) ==
    [shape |-> MeshShape(t),
     c |-> [q \in Idx(MeshShape(t)) |->
               IF Unmasked(t, q[1], q[2]) = {} THEN masked
               ELSE [v |-> MeanOver(TileVals(t, q[1], q[2]),
                                    Unmasked(t, q[1], q[2])),
                     m |-> FALSE]]]

ma_median(t) ==
    [shape |-> MeshShape(t),
     c |-> [q \in Idx(MeshShape(t)) |->
               IF Unmasked(t, q[1], q[2]) = {} THEN masked
               ELSE [v |-> MedianOver(TileVals(t, q[1], q[2]),
                                      Unmasked(t, q[1], q[2])),
                     m |-> FALSE]]]

ma_var(t) ==
    [shape |-> MeshShape(t),
     c |-> [q \in Idx(MeshShape(t)) |->
               IF Unmasked(t, q[1], q[2]) = {} THEN masked
               ELSE [v |-> VarOver(TileVals(t, q[1], q[2]),
                                   Unmasked(t, q[1], q[2])),
                     m |-> FALSE]]]

(* np.ma.std: the square root of np.ma.var. *)
ma_std(t) ==
    LET var == ma_var(t)
    IN  [shape |-> var.shape,
         c |-> [q \in Idx(var.shape) |->
                   IF var.c[q].m THEN masked
                   ELSE [v |-> RSqrt(var.c[q].v), m |-> FALSE]]]

(* sextractor_cell with the median kept only above 0.3, not at 0.3. *)
sextractor_cell_le(box_mean, box_median, box_var) ==
    IF box_mean.m \/ box_median.m \/ box_var.m THEN [v |-> Rat(0), m |-> TRUE]
    ELSE IF ~IsNaN(box_var.v) /\ box_var.v[1] = 0 THEN [v |-> Rat(0), m |-> TRUE]
    ELSE LET d == RSub(box_mean.v, box_median.v)
             condition == RLe(RMul(RMul(d, d), Rat(100)),
                              RMul(Rat(9), box_var.v))
             bkg_est == RSub(RMul(<<5, 2>>, box_median.v),
                             RMul(<<3, 2>>, box_mean.v))
         IN  [v |-> IF condition THEN bkg_est ELSE box_median.v, m |-> FALSE]

(* method 'sextractor', one tile.  The masked division masks the condition *)
(* where box_std is 0, and np.ma.where gives a masked cell where its       *)
(* condition is masked.  |mean - median| / std < 0.3 is decided exactly,   *)
(* on the squares: (mean - median)^2 * 100 < 9 * var, std being >= 0.      *)
sextractor_cell(box_mean, box_median, box_var) ==
    IF box_mean.m \/ box_median.m \/ box_var.m THEN masked
    ELSE IF ~IsNaN(box_var.v) /\ box_var.v[1] = 0 THEN masked
    ELSE LET d == RSub(box_mean.v, box_median.v)
             condition == RLt(RMul(RMul(d, d), Rat(100)),
                              RMul(Rat(9), box_var.v))
             bkg_est == RSub(RMul(<<5, 2>>, box_median.v),
                             RMul(<<3, 2>>, box_mean.v))
         IN  [v |-> IF condition THEN bkg_est ELSE box_median.v, m |-> FALSE]

mode_estimate_cell(box_mean, box_median) ==
    IF box_mean.m \/ box_median.m THEN masked
    ELSE [v |-> RSub(RMul(Rat(3), box_median.v), RMul(Rat(2), box_mean.v)),
          m |-> FALSE]

Methods == {"mean", "median", "sextractor", "mode_estimate"}

(* The branches of background_mesh on self.method, before the fallback. *)
bkg_mesh_estimate(t, meth) ==
    CASE meth = "mean" -> ma_mean(t)
      [] meth = "median" -> ma_median(t)
      [] meth = "sextractor" ->
            LET box_mean == ma_mean(t)
                box_median == ma_median(t)
                box_var == ma_var(t)
            IN  [shape |-> MeshShape(t),
                 c |-> [q \in Idx(MeshShape(t)) |->
                           sextractor_cell(box_mean.c[q], box_median.c[q],
                                           box_var.c[q])]]
      [] meth = "mode_estimate" ->
            LET box_mean == ma_mean(t)
                box_median == ma_median(t)
            IN  [shape |-> MeshShape(t),
                 c |-> [q \in Idx(MeshShape(t)) |->
                           mode_estimate_cell(box_mean.c[q], box_median.c[q])]]

(* The cells of a masked mesh that are not masked. *)
Defined(mesh) == {q \in Idx(mesh.shape) : ~mesh.c[q].m}

MeshVals(mesh) == [q \in Idx(mesh.shape) |-> mesh.c[q].v]

(* ma_filled_median with the median taken over the data of all the cells,  *)
(* the masked ones included.                                               *)
ma_filled_median_all(mesh) ==
    LET fill_value == MedianOver([q \in Idx(mesh.shape) |-> mesh.c[q].v],
                                 Idx(mesh.shape))
    IN  [shape |-> mesh.shape,
         c |-> [q \in Idx(mesh.shape) |->
                   IF mesh.c[q].m THEN fill_value ELSE mesh.c[q].v]]

(* np.ma.filled(mesh, fill_value=np.ma.median(mesh)): the median of a mesh *)
(* with no unmasked cell is the masked constant, whose data is 0.0.        *)
ma_filled_median(mesh) ==
    LET fill_value == IF Defined(mesh) = {} THEN Rat(0)
                      ELSE MedianOver(MeshVals(mesh), Defined(mesh))
    IN  [shape |-> mesh.shape,
         c |-> [q \in Idx(mesh.shape) |->
                   IF mesh.c[q].m THEN fill_value ELSE mesh.c[q].v]]

-----------------------------------------------------------------------------
(* Background._filter_meshes *)

Max(a, b) == IF a > b THEN a ELSE b

Min(a, b) == IF a < b THEN a ELSE b

(* generic_filter(mesh, np.nanmedian, size, mode='constant', cval=nan):    *)
(* the window of cell q is q - size // 2 ... q - size // 2 + size - 1 on   *)
(* each axis; cells outside the mesh read as nan, and nanmedian skips nan. *)
generic_filter_nanmedian(mesh, size) ==
    LET win(q) == {w \in Idx(mesh.shape) :
                      /\ q[1] - size[1] \div 2 <= w[1]
                      /\ w[1] < q[1] - size[1] \div 2 + size[1]
                      /\ q[2] - size[2] \div 2 <= w[2]
                      /\ w[2] < q[2] - size[2] \div 2 + size[2]
                      /\ ~IsNaN(mesh.c[w])}
    IN  [shape |-> mesh.shape,
         c |-> [q \in Idx(mesh.shape) |->
                   IF win(q) = {} THEN NaN ELSE MedianOver(mesh.c, win(q))]]

(* np.median(src[y0:y1, x0:x1]) for the window of cell <<i, j>>. *)
window_median(src, shape, i, j, fs) ==
    LET yfs == fs[1]
        xfs == fs[2]
        hyfs == yfs \div 2
        hxfs == xfs \div 2
        y0 == Max(i - hyfs, 0)
        y1 == Min(i - hyfs + yfs, shape[1])
        x0 == Max(j - hxfs, 0)
        x1 == Min(j - hxfs + xfs, shape[2])
    IN  MedianOver(src, {w \in Idx(shape) : /\ y0 <= w[1] /\ w[1] < y1
                                            /\ x0 <= w[2] /\ w[2] < x1})

(* filter_source reading the array the loop writes. *)
filter_source_inplace(mesh, mesh_out) == mesh_out

(* What the loop body reads its window from: mesh, not mesh_out. *)
filter_source(mesh, mesh_out) == mesh

(* The loop over the cells np.nonzero(mesh > filter_threshold) lists, in   *)
(* row-major order; todo are the cells still to be visited.                *)
RECURSIVE filter_loop(_, _, _, _)
filter_loop(mesh, mesh_out, todo, fs) ==
    IF todo = {} THEN mesh_out
    ELSE LET q == CHOOSE w \in todo :
                      \A u \in todo : Ravel(w, mesh.shape) <= Ravel(u, mesh.shape)
             new == window_median(filter_source(mesh, mesh_out).c, mesh.shape,
                                  q[1], q[2], fs)
         IN  filter_loop(mesh, [mesh_out EXCEPT !.c[q] = new], todo \ {q}, fs)

_filter_meshes(mesh, fs, thr) ==
    IF thr = None THEN generic_filter_nanmedian(mesh, fs)
    ELSE filter_loop(mesh, mesh,
                     {q \in Idx(mesh.shape) : RGt(mesh.c[q], Rat(thr))}, fs)

-----------------------------------------------------------------------------
(* Background._resize_meshes *)

kx == 3
ky == 3

(* np.linspace(start, stop, num)[i] *)
linspace(start, stop, num, i) ==
    IF num = 1 THEN start
    ELSE RAdd(start, RDiv(RMul(Rat(i), RSub(stop, start)), Rat(num - 1)))

(* A pixel of a full-resolution map: 0.0, or the value at <<y, x>> (in     *)
(* mesh coordinates) of the spline through the mesh the map records.       *)
Zero == [zero |-> TRUE, at |-> <<NaN, NaN>>]

SplineAt(y, x) == [zero |-> FALSE, at |-> <<y, x>>]

(* The sample positions: data_shape[0] values of y from -0.5 to ny - 0.5   *)
(* and data_shape[1] values of x from -0.5 to nx - 0.5.                    *)
resize_positions(mesh_shape, shape) ==
    [p \in Idx(shape) |->
        SplineAt(linspace(<<-1, 2>>, RSub(Rat(mesh_shape[1]), <<1, 2>>),
                          shape[1], p[1]),
                 linspace(<<-1, 2>>, RSub(Rat(mesh_shape[2]), <<1, 2>>),
                          shape[2], p[2]))]

Err == [shape |-> <<0, 0>>, c |-> <<>>]

(* RectBivariateSpline(y, x, mesh, kx=3, ky=3, s=0)(yy, xx).  The fit      *)
(* needs more than ky points along y and more than kx along x, and raises  *)
(* ValueError otherwise.                                                   *)
_resize_meshes(mesh, data_shape) ==
    IF mesh.shape[1] <= ky \/ mesh.shape[2] <= kx
    THEN [ok |-> FALSE, v |-> Err]
    ELSE [ok |-> TRUE,
          v |-> [shape |-> data_shape, mesh |-> mesh,
                 c |-> resize_positions(mesh.shape, data_shape)]]

(* arr[0:y0, 0:x0] *)
Slice(arr, y0, x0) ==
    LET t == <<Min(arr.shape[1], y0), Min(arr.shape[2], x0)>>
    IN  [arr EXCEPT !.shape = t, !.c = [p \in Idx(t) |-> arr.c[p]]]

(* arr[m] = 0. *)
SetZero(arr, m) ==
    [arr EXCEPT !.c = [p \in Idx(arr.shape) |->
                          IF m.c[p] THEN Zero ELSE arr.c[p]]]

(* crop_and_zero without the zeroing of the masked pixels. *)
crop_only(bkg, self) ==
    IF self.padded
    THEN [bkg EXCEPT
            !.shape = <<IF bkg.shape[1] < self.data_shape[1]
                        THEN bkg.shape[1] ELSE self.data_shape[1],
                        IF bkg.shape[2] < self.data_shape[2]
                        THEN bkg.shape[2] ELSE self.data_shape[2]>>]
    ELSE bkg

(* The lines of background and background_rms after the mesh is resized. *)
crop_and_zero(bkg, self) ==
    LET cropped == IF self.padded
                   THEN Slice(bkg, self.data_shape[1], self.data_shape[2])
                   ELSE bkg
    IN  IF self.mask # NoMask THEN SetZero(cropped, self.mask) ELSE cropped

-----------------------------------------------------------------------------
(* The lazy properties.  s is the part of the instance they change:        *)
(* [cached, val, ncomputed].  An evaluation gives [ok, v, s]: whether it   *)
(* returned (or raised ValueError), the value, and the instance after it.  *)

Quantities == {"background_mesh", "background_rms_mesh", "background",
               "background_rms", "background_median", "background_rms_median"}

Ret(ok, v, s) == [ok |-> ok, v |-> v, s |-> s]

(* lazyproperty that runs the body on every access and stores nothing. *)
lazyproperty_nostore(q, s, r) ==
    IF ~r.ok THEN r
    ELSE [ok |-> TRUE, v |-> r.v,
          s |-> [r.s EXCEPT !.ncomputed[q] = @ + 1]]

(* lazyproperty.__get__: the stored value when there is one; otherwise     *)
(* the body's value r, stored in the instance's __dict__ when the body     *)
(* returns.                                                                *)
lazyproperty(q, s, r) ==
    IF q \in s.cached THEN Ret(TRUE, s.val[q], s)
    ELSE IF ~r.ok THEN r
    ELSE Ret(TRUE, r.v,
             [cached |-> r.s.cached \cup {q},
              val |-> [r.s.val EXCEPT ![q] = r.v],
              ncomputed |-> [r.s.ncomputed EXCEPT ![q] = @ + 1]])

(* The mesh after the fallback and the filter. *)
fill_and_filter(mesh, self) ==
    LET filled == ma_filled_median(mesh)
    IN  IF self.filter_shape # <<1, 1>>
        THEN _filter_meshes(filled, self.filter_shape, self.filter_threshold)
        ELSE filled

(* unknown_method falling back to the median instead of raising. *)
unknown_method_median(self, s) ==
    [ok |-> TRUE, v |-> ma_filled_median(ma_median(self.data_sigclip)),
     s |-> s]

(* The body of background_mesh for a method it does not know. *)
unknown_method(self, s) == Ret(FALSE, Err, s)

background_mesh(self, s) ==
    lazyproperty("background_mesh", s,
        IF self.method \in Methods
        THEN Ret(TRUE,
                 fill_and_filter(bkg_mesh_estimate(self.data_sigclip,
                                                   self.method), self),
                 s)
        ELSE unknown_method(self, s))

background_rms_mesh(self, s) ==
    lazyproperty("background_rms_mesh", s,
        Ret(TRUE, fill_and_filter(ma_std(self.data_sigclip), self), s))

background(self, s) ==
    lazyproperty("background", s,
        LET m == background_mesh(self, s)
            bkg == _resize_meshes(m.v, self.data_shape)
        IN  IF ~m.ok THEN m
            ELSE IF ~bkg.ok THEN Ret(FALSE, Err, m.s)
            ELSE Ret(TRUE, crop_and_zero(bkg.v, self), m.s))

background_rms(self, s) ==
    lazyproperty("background_rms", s,
        LET m == background_rms_mesh(self, s)
            bkgrms == _resize_meshes(m.v, self.data_shape)
        IN  IF ~bkgrms.ok THEN Ret(FALSE, Err, m.s)
            ELSE Ret(TRUE, crop_and_zero(bkgrms.v, self), m.s))

(* np.median of all the cells of a mesh. *)
np_median(mesh) == MedianOver(mesh.c, Idx(mesh.shape))

background_median(self, s) ==
    lazyproperty("background_median", s,
        LET m == background_mesh(self, s)
        IN  IF ~m.ok THEN m ELSE Ret(TRUE, np_median(m.v), m.s))

background_rms_median(self, s) ==
    lazyproperty("background_rms_median", s,
        LET m == background_rms_mesh(self, s)
        IN  Ret(TRUE, np_median(m.v), m.s))

-----------------------------------------------------------------------------
(* The instance. *)

Self == [data_shape |-> data.shape, mask |-> mask, box_shape |-> box_shape,
         filter_shape |-> filter_shape,
         filter_threshold |-> filter_threshold, method |-> method,
         padded |-> padded, data_sigclip |-> data_sigclip]

S == [cached |-> cached, val |-> val, ncomputed |-> ncomputed]

(* The state after Background(data, box_shape, filter_shape,               *)
(* filter_threshold, mask, method, sigclip_sigma, sigclip_iters).          *)
Constructed(inp) ==
    /\ data = inp.data
    /\ mask = inp.mask
    /\ box_shape = inp.box_shape
    /\ filter_shape = inp.filter_shape
    /\ filter_threshold = inp.filter_threshold
    /\ method = inp.method
    /\ sigclip_sigma = inp.sigclip_sigma
    /\ sigclip_iters = inp.sigclip_iters
    /\ padded = is_padded(inp.data, inp.box_shape)
    /\ data_sigclip = _sigclip_data(data_ma_of(inp.data, inp.mask,
                                               inp.box_shape),
                                    inp.box_shape, inp.sigclip_sigma,
                                    inp.sigclip_iters)
    /\ cached = {}
    /\ val = [q \in Quantities |-> <<>>]
    /\ ncomputed = [q \in Quantities |-> 0]
    /\ last = [q |-> "none", outcome |-> "none"]

(* An access to property q, r its evaluation. *)
Access(q, r) ==
    /\ cached' = r.s.cached
    /\ val' = r.s.val
    /\ ncomputed' = r.s.ncomputed
    /\ last' = [q |-> q, outcome |-> IF r.ok THEN "ok" ELSE "ValueError"]
    /\ UNCHANGED <<data, mask, box_shape, filter_shape, filter_threshold,
                   method, sigclip_sigma, sigclip_iters, padded, data_sigclip>>

Get_background_mesh == Access("background_mesh", background_mesh(Self, S))

Get_background_rms_mesh ==
    Access("background_rms_mesh", background_rms_mesh(Self, S))

Get_background == Access("background", background(Self, S))

Get_background_rms == Access("background_rms", background_rms(Self, S))

Get_background_median ==
    Access("background_median", background_median(Self, S))

Get_background_rms_median ==
    Access("background_rms_median", background_rms_median(Self, S))

Next ==
    \/ Get_background_mesh
    \/ Get_background_rms_mesh
    \/ Get_background
    \/ Get_background_rms
    \/ Get_background_median
    \/ Get_background_rms_median

-----------------------------------------------------------------------------
(* Inputs. *)

Input(d, m, box, fs, thr, meth, sig, iters) ==
    [data |-> d, mask |-> m, box_shape |-> box, filter_shape |-> fs,
     filter_threshold |-> thr, method |-> meth, sigclip_sigma |-> sig,
     sigclip_iters |-> iters]

Sigmas == 1..MaxSigma

Iters == {None} \cup 1..MaxIters

(* One-tile grids: a row of n <= MaxTile samples in 0..MaxVal, in          *)
(* non-decreasing order, under every sigma and iteration count; and rows   *)
(* constructed for the sextractor condition (|mean - median| / std is 0.3  *)
(* for the first two, below it for the third), under the default           *)
(* sigclip_sigma.                                                          *)
sigclip_sigma_default == 3

ConstructedRows == {<<0, 2, 6, 9, 28>>, <<0, 0, 0, 5, 5, 14>>, <<0, 1, 1, 3>>}

SortedRows ==
    UNION {{r \in [1..n -> 0..MaxVal] :
               \A i \in 1..n - 1 : r[i] <= r[i + 1]} : n \in 1..MaxTile}

RowGrid(r) == [shape |-> <<1, Len(r)>>,
               c |-> [p \in Idx(<<1, Len(r)>>) |-> Rat(r[p[2] + 1])]]

TileInputs ==
    {Input(RowGrid(r), NoMask, <<1, Len(r)>>, <<1, 1>>, None, "sextractor",
           sig, it) : r \in SortedRows, sig \in Sigmas, it \in Iters}
    \cup
    {Input(RowGrid(r), NoMask, <<1, Len(r)>>, <<1, 1>>, None, "sextractor",
           sigclip_sigma_default, it) : r \in ConstructedRows, it \in Iters}

InitTile == \E inp \in TileInputs : Constructed(inp)

SpecTile == InitTile /\ [][Next]_vars

(* Small grids whose samples differ by position (sample <<r, c>> is        *)
(* r * nx + c), with at most one NaN sample, tiled with and without        *)
(* padding.                                                                *)
MaxRows == 3
MaxCols == 4

Corners(shape) == {<<0, 0>>, <<shape[1] - 1, shape[2] - 1>>}

RampGrid(shape, nans) ==
    [shape |-> shape,
     c |-> [p \in Idx(shape) |->
               IF p \in nans THEN NaN ELSE Rat(p[1] * shape[2] + p[2])]]

FlagGrid(shape, flagged) ==
    [shape |-> shape, c |-> [p \in Idx(shape) |-> p \in flagged]]

GridShapes == {<<ny, nx>> : ny \in 2..MaxRows, nx \in 2..MaxCols}

GridBoxes == {<<2, 2>>, <<1, 2>>, <<2, 1>>}

GridInputs ==
    UNION {{Input(RampGrid(sh, nans), m, box, <<1, 1>>, None, "mean",
                  MaxSigma, None) :
               nans \in {{}} \cup {{p} : p \in Corners(sh)},
               m \in {NoMask, FlagGrid(sh, {})}
                     \cup {FlagGrid(sh, {p}) : p \in Corners(sh)},
               box \in GridBoxes} : sh \in GridShapes}

InitGrid == \E inp \in GridInputs : Constructed(inp)

SpecGrid == InitGrid /\ [][Next]_vars

(* Grids of 2 x 2 samples in 0..MaxMeshVal, one of them NaN in some, and   *)
(* their widenings to 2 x 4 (sample g[r, j] becomes the pair g[r, j],      *)
(* g[r, j] + g[1 - r, j], of zero deviation when g[1 - r, j] is 0), cut    *)
(* into tiles of one or two samples, with tiles the mask excludes.         *)
MaxMeshVal == 2

SmallGrids ==
    {[shape |-> <<2, 2>>, c |-> [p \in Idx(<<2, 2>>) |-> Rat(f[p])]] :
        f \in [Idx(<<2, 2>>) -> 0..MaxMeshVal]}

WithNaN(g, p) == [g EXCEPT !.c[p] = NaN]

Widen(g) ==
    [shape |-> <<2, 4>>,
     c |-> [p \in Idx(<<2, 4>>) |->
               IF p[2] % 2 = 0 THEN g.c[<<p[1], p[2] \div 2>>]
               ELSE RAdd(g.c[<<p[1], p[2] \div 2>>],
                         g.c[<<1 - p[1], p[2] \div 2>>])]]

FallbackGrids ==
    SmallGrids
    \cup {WithNaN(h, <<0, 0>>) : h \in {k \in SmallGrids : k.c[<<0, 0>>] = Rat(0)}}
    \cup {Widen(g) : g \in SmallGrids}

FallbackInputs ==
    UNION {{Input(g, m, box, <<1, 1>>, None, meth, MaxSigma, None) :
               m \in {NoMask, FlagGrid(g.shape, {<<0, 0>>}),
                      FlagGrid(g.shape, Idx(g.shape))},
               box \in {<<1, 1>>, <<1, 2>>},
               meth \in {"mean", "sextractor"}} : g \in FallbackGrids}

InitFallback == \E inp \in FallbackInputs : Constructed(inp)

SpecFallback == InitFallback /\ [][Next]_vars

(* Meshes to filter: tiles of one sample, so that the mesh is the grid     *)
(* (2 x 2 grids, and 3 x 3 grids with sample (a r + b c) % (MaxMeshVal+2)),*)
(* under every filter shape and threshold of FilterShapes and Thresholds.  *)
MaxThr == 1

ModGrid(shape, a, b, n) ==
    [shape |-> shape,
     c |-> [p \in Idx(shape) |-> Rat((a * p[1] + b * p[2]) % n)]]

FilterShapes == {<<3, 3>>, <<1, 3>>, <<3, 1>>, <<2, 2>>}

Thresholds == {None} \cup 0..MaxThr

FilterInputs ==
    {Input(g, NoMask, <<1, 1>>, fs, thr, "mean", MaxSigma, None) :
        g \in SmallGrids \cup {ModGrid(<<3, 3>>, a, b, MaxMeshVal + 2) :
                                  a \in 0..MaxMeshVal, b \in 0..MaxMeshVal},
        fs \in FilterShapes, thr \in Thresholds}

InitFilter == \E inp \in FilterInputs : Constructed(inp)

SpecFilter == InitFilter /\ [][Next]_vars

(* Grids whose meshes the spline can and cannot be fitted to: 4 x 4 tiles  *)
(* (with and without padding) and 3 x 4 tiles; sample <<r, c>> is          *)
(* (r * nx + c) % (MaxVal + 1).  The method may be one the class does not  *)
(* know.                                                                   *)
MapShapes == {<<<<4, 4>>, <<1, 1>>>>, <<<<3, 4>>, <<1, 1>>>>,
              <<<<8, 4>>, <<2, 1>>>>, <<<<7, 4>>, <<2, 1>>>>,
              <<<<7, 7>>, <<2, 2>>>>}

MapFilters == {<<<<1, 1>>, None>>, <<<<3, 3>>, None>>, <<<<3, 3>>, MaxThr>>}

MapInputs ==
    UNION {{Input(ModGrid(sb[1], sb[1][2], 1, MaxVal + 1), m, sb[2], ft[1],
                  ft[2], meth, MaxSigma, None) :
               m \in {NoMask, FlagGrid(sb[1], Idx(sb[1]))}
                     \cup {FlagGrid(sb[1], {p}) : p \in Corners(sb[1])},
               ft \in MapFilters,
               meth \in {"mean", "sextractor", "bogus"}} : sb \in MapShapes}

Init == \E inp \in MapInputs : Constructed(inp)

Spec == Init /\ [][Next]_vars

-----------------------------------------------------------------------------
(* Properties. *)

(* The masked array __init__ builds from the arguments, and its tiles      *)
(* before clipping.                                                        *)
data_ma == data_ma_of(data, mask, box_shape)

data_rebin == data_rebin_of(data_ma, box_shape)

Tiles == Idx(MeshShape(data_sigclip))

Survivors(q) == Unmasked(data_sigclip, q[1], q[2])

TileMean(q) == MeanOver(TileVals(data_sigclip, q[1], q[2]), Survivors(q))

TileMedian(q) == MedianOver(TileVals(data_sigclip, q[1], q[2]), Survivors(q))

TileVar(q) == VarOver(TileVals(data_sigclip, q[1], q[2]), Survivors(q))

(* |mean - median| / std compared with 0.3, on the squares. *)
RatioBelow(q) ==
    LET d == RSub(TileMean(q), TileMedian(q))
    IN  RLt(RMul(RMul(d, d), Rat(100)), RMul(Rat(9), TileVar(q)))

RatioEqual(q) ==
    LET d == RSub(TileMean(q), TileMedian(q))
    IN  RMul(RMul(d, d), Rat(100)) = RMul(Rat(9), TileVar(q))

NonzeroStd(q) ==
    Survivors(q) # {} /\ ~IsNaN(TileVar(q)) /\ TileVar(q)[1] # 0

Reclipped == sigma_clip(data_sigclip, sigclip_sigma, sigclip_iters)

(* C8 as stated: for every setting of sigclip_sigma and sigclip_iters,     *)
(* clipping the clipped tiles again excludes no further sample.            *)
C8_Original == Reclipped = data_sigclip

(* C8, amended: with sigclip_iters=None (clip until convergence), clipping *)
(* the clipped tiles again excludes no further sample.                     *)
C8_IdempotentConverged == sigclip_iters = None => Reclipped = data_sigclip

(* Clipping to convergence took more than one rejecting iteration. *)
C8_Witness ==
    /\ sigclip_iters = None
    /\ count(data_sigclip) < count(ClipOnce(data_rebin, sigclip_sigma))
    /\ Reclipped = data_sigclip

(* C4: tile <<i, j>> of the stack holds, at position k, the sample of the  *)
(* padded grid at row i * ty + k \div tx and column j * tx + k % tx, with  *)
(* its exclusion marker; the stack has (R' / ty) x (C' / tx) tiles of      *)
(* ty * tx samples, so each sample of a block lands once, in its tile.     *)
C4_Tiling ==
    LET ty == box_shape[1]
        tx == box_shape[2]
    IN  /\ data_rebin.shape = <<data_ma.shape[1] \div ty,
                                data_ma.shape[2] \div tx, ty * tx>>
        /\ data_sigclip.shape = data_rebin.shape
        /\ \A p \in Idx(data_rebin.shape) :
              LET src == <<p[1] * ty + (p[3] \div tx), p[2] * tx + (p[3] % tx)>>
              IN  /\ data_rebin.c[p] = data_ma.c[src]
                  /\ data_sigclip.c[p].v = data_ma.c[src].v
                  /\ data_ma.c[src].m => data_sigclip.c[p].m

(* A padded grid cut into several tile columns of several rows each. *)
C4_Witness ==
    /\ padded /\ box_shape[1] > 1 /\ box_shape[2] > 1
    /\ data_sigclip.shape[2] > 1 /\ data_sigclip.shape[1] > 1
    /\ data_sigclip.c[<<1, 1, 0>>].v = data.c[<<box_shape[1], box_shape[2]>>]

(* C10 as stated: a sample handed to sigma clipping is excluded exactly    *)
(* when it is a padding sample or the caller's mask flags it, whatever     *)
(* its value.                                                              *)
C10_Original ==
    \A p \in Idx(data_ma.shape) :
        data_ma.c[p].m <=>
            \/ p[1] >= data.shape[1] \/ p[2] >= data.shape[2]
            \/ (mask # NoMask /\ mask.c[p])

(* The meshes before the fallback, and after it (before the filter). *)
RawValueMesh == bkg_mesh_estimate(data_sigclip, method)

RawRmsMesh == ma_std(data_sigclip)

(* The samples clipping may read are numbers. *)
FiniteSamples == \A p \in Idx(data_ma.shape) : data_ma.c[p].m \/ ~IsNaN(data_ma.c[p].v)

(* The stored mesh cached is raw after the fallback as C3 states it. *)
FallbackAsStated(raw, stored) ==
    \A q \in Idx(raw.shape) :
        /\ ~IsNaN(stored.c[q])
        /\ raw.c[q].m =>
              /\ Defined(raw) # {}
              /\ stored.c[q] = MedianOver(MeshVals(raw), Defined(raw))
        /\ ~raw.c[q].m => stored.c[q] = raw.c[q].v

(* C3 as stated: after the fallback no cell of either mesh is undefined;   *)
(* an undefined tile takes the median of the defined cells of its mesh and *)
(* a defined cell keeps its value (read off the stored meshes where no     *)
(* filter runs).                                                           *)
C3_Original ==
    /\ ("background_mesh" \in cached /\ filter_shape = <<1, 1>>)
          => FallbackAsStated(RawValueMesh, val["background_mesh"])
    /\ ("background_rms_mesh" \in cached /\ filter_shape = <<1, 1>>)
          => FallbackAsStated(RawRmsMesh, val["background_rms_mesh"])

FallbackAmended(raw, stored) ==
    /\ (FiniteSamples /\ Defined(raw) # {}) => FallbackAsStated(raw, stored)
    /\ Defined(raw) = {} => \A q \in Idx(raw.shape) : stored.c[q] = Rat(0)

(* C3, amended: for a grid whose unexcluded samples are numbers, when some *)
(* tile of a mesh has a defined estimate, no cell of that mesh is          *)
(* undefined after the fallback, an undefined tile takes the median of the *)
(* defined cells and a defined cell keeps its value; when no tile has a    *)
(* defined estimate every cell of the mesh is 0.                           *)
C3_Fallback ==
    /\ ("background_mesh" \in cached /\ filter_shape = <<1, 1>>)
          => FallbackAmended(RawValueMesh, val["background_mesh"])
    /\ ("background_rms_mesh" \in cached /\ filter_shape = <<1, 1>>)
          => FallbackAmended(RawRmsMesh, val["background_rms_mesh"])

(* A stored sextractor mesh in which a tile of zero standard deviation     *)
(* took the median of the two defined cells, which differ.                 *)
C3_Witness ==
    /\ method = "sextractor" /\ "background_mesh" \in cached
    /\ filter_shape = <<1, 1>> /\ FiniteSamples
    /\ \E q \in Tiles :
          /\ RawValueMesh.c[q].m /\ Survivors(q) # {}
          /\ Cardinality(Defined(RawValueMesh)) = 2
          /\ \E u \in Defined(RawValueMesh) :
                val["background_mesh"].c[q] # RawValueMesh.c[u].v
          /\ val["background_mesh"].c[q] =
                MedianOver(MeshVals(RawValueMesh), Defined(RawValueMesh))

(* The window of shape fs centred on cell q, clipped to the mesh. *)
Window(shape, q, fs) ==
    {w \in Idx(shape) :
        /\ w[1] >= q[1] - fs[1] \div 2 /\ w[1] <= q[1] - fs[1] \div 2 + fs[1] - 1
        /\ w[2] >= q[2] - fs[2] \div 2 /\ w[2] <= q[2] - fs[2] \div 2 + fs[2] - 1}

(* stored is pre filtered selectively, every cell from pre's own values. *)
SelectivelyFiltered(pre, stored) ==
    \A q \in Idx(pre.shape) :
        stored.c[q] =
            IF RGt(pre.c[q], Rat(filter_threshold))
            THEN MedianOver(pre.c, Window(pre.shape, q, filter_shape))
            ELSE pre.c[q]

(* C7: with a filter_threshold and a filter shape other than (1, 1), a     *)
(* mesh cell at or below the threshold is unchanged and a cell above it    *)
(* becomes the median of the pre-filter values in the window centred on it *)
(* and clipped to the mesh; no replaced cell feeds another cell's median.  *)
C7_SelectiveFilter ==
    (filter_threshold # None /\ filter_shape # <<1, 1>>) =>
        /\ "background_mesh" \in cached =>
              SelectivelyFiltered(ma_filled_median(RawValueMesh),
                                  val["background_mesh"])
        /\ "background_rms_mesh" \in cached =>
              SelectivelyFiltered(ma_filled_median(RawRmsMesh),
                                  val["background_rms_mesh"])

(* A stored mesh in which two neighbouring cells above the threshold were  *)
(* replaced, by values other than their own, and a cell was kept.          *)
C7_Witness ==
    /\ filter_threshold # None /\ filter_shape # <<1, 1>>
    /\ "background_mesh" \in cached
    /\ LET pre == ma_filled_median(RawValueMesh)
           stored == val["background_mesh"]
       IN  /\ \E q \in Idx(pre.shape) :
                 \E w \in Window(pre.shape, q, filter_shape) \ {q} :
                    /\ RGt(pre.c[q], Rat(filter_threshold))
                    /\ RGt(pre.c[w], Rat(filter_threshold))
                    /\ stored.c[q] # pre.c[q] /\ stored.c[w] # pre.c[w]
           /\ \E q \in Idx(pre.shape) :
                 ~RGt(pre.c[q], Rat(filter_threshold))

ValueQuantities == {"background_mesh", "background", "background_median"}

NoiseQuantities == Quantities \ ValueQuantities

(* C1: the body of each of the six properties runs at most once: a stored  *)
(* property has run once, stays stored, keeps its value and does not run   *)
(* again, whichever property is accessed.                                  *)
C1_ComputedOnce ==
    [][\A q \in Quantities :
          /\ ncomputed'[q] <= 1
          /\ (q \in cached') <=> (ncomputed'[q] = 1)
          /\ q \in cached =>
                /\ q \in cached'
                /\ val'[q] = val[q]
                /\ ncomputed'[q] = ncomputed[q]]_vars

(* All six properties are stored, each computed once, and the last access  *)
(* read a mesh that an earlier access had stored.                          *)
C1_Witness ==
    /\ cached = Quantities
    /\ \A q \in Quantities : ncomputed[q] = 1
    /\ last = [q |-> "background_mesh", outcome |-> "ok"]

(* What the noise properties hold, from the constructed state alone. *)
ExpectedRmsMesh == fill_and_filter(ma_std(data_sigclip), Self)

ExpectedRms ==
    crop_and_zero(_resize_meshes(ExpectedRmsMesh, data.shape).v, Self)

(* C2: with a method the class does not know, an access to                 *)
(* background_mesh, background or background_median ends in the error and  *)
(* stores nothing, and the noise properties return what the constructed    *)
(* state determines, before and after such a failure (background_rms       *)
(* whenever the spline can be fitted to the noise mesh).                   *)
C2_UnknownMethod ==
    method \notin Methods =>
        /\ cached \cap ValueQuantities = {}
        /\ last.q \in ValueQuantities => last.outcome = "ValueError"
        /\ last.q \in {"background_rms_mesh", "background_rms_median"}
              => last.outcome = "ok"
        /\ last.q = "background_rms" =>
              (last.outcome = "ok"
                 <=> _resize_meshes(ExpectedRmsMesh, data.shape).ok)
        /\ "background_rms_mesh" \in cached =>
              val["background_rms_mesh"] = ExpectedRmsMesh
        /\ "background_rms_median" \in cached =>
              val["background_rms_median"] = np_median(ExpectedRmsMesh)
        /\ "background_rms" \in cached =>
              val["background_rms"] = ExpectedRms

(* An access to background failed with all three noise properties stored. *)
C2_Witness ==
    /\ method \notin Methods
    /\ last = [q |-> "background", outcome |-> "ValueError"]
    /\ NoiseQuantities \subseteq cached
    /\ val["background_rms"] = ExpectedRms

(* C5: a pixel the mask flags is 0 in the background map and in the noise  *)
(* map, and the stored meshes are the meshes the maps were resized from,   *)
(* unchanged by the zeroing.                                               *)
C5_MaskedZero ==
    /\ "background" \in cached =>
          /\ mask # NoMask =>
                \A p \in Idx(data.shape) :
                    mask.c[p] => val["background"].c[p] = Zero
          /\ val["background_mesh"] =
                fill_and_filter(bkg_mesh_estimate(data_sigclip, method), Self)
          /\ val["background"].mesh = val["background_mesh"]
    /\ "background_rms" \in cached =>
          /\ mask # NoMask =>
                \A p \in Idx(data.shape) :
                    mask.c[p] => val["background_rms"].c[p] = Zero
          /\ val["background_rms_mesh"] = ExpectedRmsMesh
          /\ val["background_rms"].mesh = val["background_rms_mesh"]

(* Both maps are stored for a filtered mesh, with a flagged pixel at 0 and *)
(* an unflagged pixel on the spline.                                       *)
C5_Witness ==
    /\ {"background", "background_rms"} \subseteq cached
    /\ mask # NoMask /\ filter_shape # <<1, 1>>
    /\ \E p \in Idx(data.shape) :
          mask.c[p] /\ val["background"].c[p] = Zero
                    /\ val["background_rms"].c[p] = Zero
    /\ \E p \in Idx(data.shape) :
          ~mask.c[p] /\ ~val["background"].c[p].zero

(* The surface of the mesh at the pixels of the padded grid. *)
PaddedSurface(mesh) == resize_positions(mesh.shape, data_ma.shape)

(* C9 as stated: with padding, the surface before the crop has the shape   *)
(* of the padded grid, and a pixel of the map is the pixel of the          *)
(* padded-grid surface at the same row and column.                         *)
C9_Original ==
    (padded /\ "background" \in cached) =>
        /\ _resize_meshes(val["background_mesh"], data.shape).v.shape
              = data_ma.shape
        /\ \A p \in Idx(data.shape) :
              ~val["background"].c[p].zero =>
                  val["background"].c[p]
                     = PaddedSurface(val["background_mesh"])[p]

====
